---- MODULE Spec2Model ----
(***************************************************************************)
(* A model of fileguard's command line entry point (src/main.c): startup   *)
(* validation, the inotify channel and watch, the blocking read loop, the  *)
(* per-record classify/notify/dispatch body, the atexit cleanup routine    *)
(* and the SIGINT handler.                                                 *)
(*                                                                         *)
(* C strings are sequences of chunks: "." and " " are the characters the   *)
(* code searches for, every other chunk is a run of characters that holds  *)
(* neither.  "c.yaml" is <<"c", ".", "yaml">>.                             *)
(***************************************************************************)
EXTENDS Integers, Sequences, FiniteSets, TLC

(* ---------------------------- bounds ---------------------------------- *)
MaxArgs == 1        \* command line arguments after argv[0]
MaxReads == 2       \* calls of read() in one run
MaxRecs == 2        \* records in one buffer returned by read()
MaxOverrun == 2     \* entries read past the end of events[] before the model stops following

(* ------------------------- program constants -------------------------- *)
events ==
  << "IN_ACCESS", "IN_ATTRIB", "IN_CLOSE_WRITE", "IN_CLOSE_NOWRITE",
     "IN_CREATE", "IN_DELETE", "IN_DELETE_SELF", "IN_MODIFY",
     "IN_MOVE_SELF", "IN_MOVED_FROM", "IN_MOVED_TO", "IN_OPEN",
     "IN_UNMOUNT" >>

NEvents == Len(events)

\* events[i] of the C code, i counted from 0, for the indices inside the array
EventsAt(i) == events[i + 1]

\* sizeof(struct inotify_event): int wd; uint32 mask, cookie, len
HeaderSize == 16

\* value of an int that was declared without an initializer and never assigned
Indeterminate == 2

\* a char * that is NULL
NullStr == << "<null>" >>

CONFIG_FILE == << "<CONFIG_FILE>" >>

\* descriptor values the kernel hands out on success
FdOk == 3
WdOk == 1

(* ------------------------------ inputs -------------------------------- *)
ArgStrings ==
  { << "-", "h" >>, << "-", "v" >>, << "-", "n" >>, << "-", "x" >>,
    << "conf" >>, << "c", ".", "yaml" >>, << "c", ".", "txt" >> }

RECURSIVE SeqsUpTo(_, _)
SeqsUpTo(S, n) ==
  IF n = 0 THEN { << >> }
  ELSE LET shorter == SeqsUpTo(S, n - 1)
       IN  shorter \cup { Append(s, x) : s \in { t \in shorter : Len(t) = n - 1 }, x \in S }

ArgLists == SeqsUpTo(ArgStrings, MaxArgs)

\* y.event as the configuration may name it
ConfigEvents == { "IN_ACCESS", "IN_MODIFY", "IN_BOGUS" }

\* y.action as the configuration may give it
ConfigActions ==
  { << "execute", " ", "cmd" >>, << "log", " ", "out" >>,
    << "execute" >>, << "mail", " ", "x" >> }

\* a record of the channel: the change-kind bits (as indices into events[],
\* counted from 0) and the length of the name that follows the header
Masks == { {7}, {11}, {5}, {0, 7} }
NameLens == { 0, 16 }
Records == [ mask : Masks, len : NameLens ]
Buffers == SeqsUpTo(Records, MaxRecs) \ { << >> }

(* ------------------------------ state --------------------------------- *)
VARIABLES
  pc,          \* position of main()
  hpc,         \* position of catch_sig(); "none" while no signal was caught
  phase,       \* "running", "exiting" (inside exit()), "terminated"
  exitStatus,  \* how the process ended
  sigAt,       \* position of main() when the signal was caught
  sc,          \* static volatile sig_atomic_t sc
  fd, wd,      \* static int fd, wd
  chanOpen,    \* fd names an inotify instance the program opened and has not closed
  watchLive,   \* wd names a watch the program registered and has not removed
  rmLog,       \* the calls of inotify_rm_watch made so far
  argv,        \* argv[1..]
  verbose, notifier,
  yaml_target,
  yEvent, yAction,
  i, event_flag,
  prepend, command,
  rd, buf, p,
  event,       \* const char *event of the loop body
  reads,       \* number of read() calls made
  report,      \* the last line written about the read
  delivered,   \* canonical names of the records the channel has delivered
  classified,  \* canonical names computed by the loop body, in order
  notes,       \* raise_notification calls
  execs,       \* system() calls
  logLines,    \* lines appended to the log file
  visited,     \* byte offsets at which the loop body read a record header
  cmdStatus    \* what the system() calls returned, in order

vars ==
  << pc, hpc, phase, exitStatus, sigAt, sc, fd, wd, chanOpen, watchLive, rmLog,
     argv, verbose, notifier, yaml_target, yEvent, yAction, i, event_flag,
     prepend, command, rd, buf, p, event, reads, report, delivered,
     classified, notes, execs, logLines, visited, cmdStatus >>

procVars == << pc, phase, exitStatus >>
sigVars == << hpc, sigAt, sc >>
handleVars == << fd, wd, chanOpen, watchLive, rmLog >>
cliVars == << argv, verbose, notifier, yaml_target >>
cfgVars == << yEvent, yAction, i, event_flag, prepend, command >>
readVars == << rd, buf, p, reads, report, delivered >>
bodyVars == << event, classified, notes, execs, logLines, visited, cmdStatus >>

(* ------------------------------ helpers ------------------------------- *)
\* the values a test of an int as a condition can take
Truthy(v) == IF v = Indeterminate THEN BOOLEAN ELSE { v # 0 }

Min(S) == CHOOSE x \in S : \A y \in S : x <= y

\* get_event(ev): the first event of the table, in table order, whose bit is set
get_event(mask) == EventsAt(Min(mask))

\* strrchr(s, c): the suffix of s that starts at the last c, NullStr if none
strrchr(s, c) ==
  LET at == { j \in 1..Len(s) : s[j] = c }
  IN  IF at = {} THEN NullStr
      ELSE SubSeq(s, CHOOSE j \in at : \A l \in at : l <= j, Len(s))

\* strcmp(a, b) == 0
StrEq(a, b) == a = b

IsOption(a) == Len(a) > 0 /\ a[1] = "-"

\* getopt() moves the options in front of the other arguments
Permute(args) ==
  SelectSeq(args, IsOption) \o SelectSeq(args, LAMBDA a : ~IsOption(a))

\* strtok(str, " "): the first token of the action string
FirstToken(s) ==
  LET at == { j \in 1..Len(s) : s[j] = " " }
  IN  IF at = {} THEN s ELSE SubSeq(s, 1, Min(at) - 1)

\* strtok(NULL, "\""): what follows the first token, NullStr if nothing does
RestToken(s) ==
  LET at == { j \in 1..Len(s) : s[j] = " " }
  IN  IF at = {} \/ Min(at) = Len(s) THEN NullStr
      ELSE SubSeq(s, Min(at) + 1, Len(s))

RECURSIVE TotalSize(_)
TotalSize(b) ==
  IF b = << >> THEN 0 ELSE HeaderSize + Head(b).len + TotalSize(Tail(b))

\* the record whose header starts at byte offset off of the buffer
RECURSIVE RecAt(_, _)
RecAt(b, off) ==
  IF off = 0 THEN Head(b) ELSE RecAt(Tail(b), off - (HeaderSize + Head(b).len))

NamesOf(b) == [ j \in 1..Len(b) |-> get_event(b[j].mask) ]

RECURSIVE CountEq(_, _)
CountEq(s, x) ==
  IF s = << >> THEN 0 ELSE (IF Head(s) = x THEN 1 ELSE 0) + CountEq(Tail(s), x)

(* --------------------------- initial state ---------------------------- *)
Init ==
  /\ pc = "install" /\ hpc = "none" /\ phase = "running"
  /\ exitStatus = "none" /\ sigAt = "none"
  /\ sc = TRUE
  /\ fd = 0 /\ wd = 0 /\ chanOpen = FALSE /\ watchLive = FALSE /\ rmLog = << >>
  /\ argv \in ArgLists
  /\ verbose = Indeterminate /\ notifier = Indeterminate
  /\ yaml_target = NullStr
  /\ yEvent = "" /\ yAction = << >>
  /\ i = 0 /\ event_flag = Indeterminate
  /\ prepend = NullStr /\ command = NullStr
  /\ rd = 0 /\ buf = << >> /\ p = 0
  /\ event = "" /\ reads = 0 /\ report = "none" /\ delivered = << >>
  /\ classified = << >> /\ notes = << >> /\ execs = 0 /\ logLines = << >>
  /\ visited = << >> /\ cmdStatus = << >>

(* ------------------------- process plumbing --------------------------- *)
\* main() runs: no handler has taken over and exit() was not called
Running == hpc = "none" /\ phase = "running"

\* exit(status) called by main(): the atexit routine is still to run
MainExits(status) ==
  /\ pc' = "exit" /\ phase' = "exiting" /\ exitStatus' = status

\* cleanup(): one call of inotify_rm_watch(fd, wd), whatever fd and wd hold
cleanup ==
  LET ok == chanOpen /\ watchLive /\ fd >= 0 /\ wd >= 0
  IN  /\ rmLog' = Append(rmLog, [fd |-> fd, wd |-> wd, removed |-> ok])
      /\ watchLive' = IF ok THEN FALSE ELSE watchLive
      /\ UNCHANGED << fd, wd, chanOpen >>

(* ------------------------------ startup ------------------------------- *)
\* lines 82-84: atexit(cleanup); signal(SIGINT, catch_sig)
Install ==
  /\ Running /\ pc = "install"
  /\ pc' = "getopt"
  /\ UNCHANGED << phase, exitStatus, sigVars, handleVars, cliVars, cfgVars,
                  readVars, bodyVars >>

\* lines 86-119: the getopt loop; -h and an unknown option leave at once
ParseArgs ==
  /\ Running /\ pc = "getopt"
  /\ LET opts == SelectSeq(argv, IsOption)
         stops == { j \in 1..Len(opts) : opts[j][2] \in { "h", "x" } }
         upto == IF stops = {} THEN Len(opts) ELSE Min(stops) - 1
         seen == { opts[j][2] : j \in 1..upto }
     IN  /\ verbose' = IF "v" \in seen THEN 1 ELSE verbose
         /\ notifier' = IF "n" \in seen THEN 1 ELSE notifier
         /\ argv' = Permute(argv)
         /\ IF stops = {}
              THEN pc' = "select_yaml" /\ UNCHANGED << phase, exitStatus >>
              ELSE MainExits(IF opts[Min(stops)][2] = "h"
                               THEN "EXIT_SUCCESS" ELSE "EXIT_FAILURE")
  /\ UNCHANGED << yaml_target, sigVars, handleVars, cfgVars, readVars, bodyVars >>

\* lines 122-140: the configuration path
SelectYaml ==
  /\ Running /\ pc = "select_yaml"
  /\ IF Len(argv) >= 1
       THEN LET dot == strrchr(argv[1], ".")
            IN  /\ yaml_target' =
                     IF dot # NullStr /\ ~StrEq(dot, << "yaml" >>)
                       THEN argv[1] ELSE CONFIG_FILE
                /\ pc' = "file_check" /\ UNCHANGED << phase, exitStatus >>
       ELSE /\ yaml_target' = yaml_target
            /\ MainExits("EXIT_FAILURE")
  /\ UNCHANGED << argv, verbose, notifier, sigVars, handleVars, cfgVars,
                  readVars, bodyVars >>

\* lines 144-154: file_check(yaml_target)
FileCheck ==
  /\ Running /\ pc = "file_check"
  /\ \E found \in BOOLEAN :
       IF found THEN pc' = "parse_yaml" /\ UNCHANGED << phase, exitStatus >>
       ELSE MainExits("EXIT_FAILURE")
  /\ UNCHANGED << sigVars, handleVars, cliVars, cfgVars, readVars, bodyVars >>

\* lines 158-164: parse_yaml_config(yaml_target)
ParseYaml ==
  /\ Running /\ pc = "parse_yaml"
  /\ \/ /\ MainExits("EXIT_FAILURE")
        /\ UNCHANGED << yEvent, yAction >>
     \/ /\ yEvent' \in ConfigEvents /\ yAction' \in ConfigActions
        /\ pc' = "scan" /\ UNCHANGED << phase, exitStatus >>
  /\ UNCHANGED << i, event_flag, prepend, command, sigVars, handleVars,
                  cliVars, readVars, bodyVars >>

\* lines 171-174, one evaluation of the loop condition and of the body.
\* events[] has NEvents entries and no NULL after them: for i >= NEvents the
\* condition reads past the array, and what it finds there is not defined by
\* the program: NULL, a pointer to some other string, a pointer to a string
\* equal to y.event, or a pointer strcmp cannot read.
ScanStep ==
  /\ Running /\ pc = "scan"
  /\ IF i < NEvents
       THEN /\ IF StrEq(yEvent, EventsAt(i))
                 THEN event_flag' = 0 /\ pc' = "check_flag" /\ i' = i
                 ELSE event_flag' = 1 /\ pc' = "scan" /\ i' = i + 1
            /\ UNCHANGED << phase, exitStatus >>
       ELSE \E found \in { "null", "other", "same", "fault" } :
              CASE found = "null" ->
                     /\ pc' = "check_flag"
                     /\ UNCHANGED << i, event_flag, phase, exitStatus >>
                [] found = "other" ->
                     /\ i < NEvents + MaxOverrun
                     /\ event_flag' = 1 /\ i' = i + 1
                     /\ UNCHANGED << pc, phase, exitStatus >>
                [] found = "same" ->
                     /\ event_flag' = 0 /\ pc' = "check_flag"
                     /\ UNCHANGED << i, phase, exitStatus >>
                [] found = "fault" ->
                     /\ phase' = "terminated" /\ exitStatus' = "SIGSEGV"
                     /\ UNCHANGED << pc, i, event_flag >>
  /\ UNCHANGED << yEvent, yAction, prepend, command, sigVars, handleVars,
                  cliVars, readVars, bodyVars >>

\* lines 176-179
CheckFlag ==
  /\ Running /\ pc = "check_flag"
  /\ \E t \in Truthy(event_flag) :
       IF t THEN MainExits("EXIT_FAILURE")
       ELSE pc' = "inode_check" /\ UNCHANGED << phase, exitStatus >>
  /\ UNCHANGED << sigVars, handleVars, cliVars, cfgVars, readVars, bodyVars >>

\* lines 183-189: file_check(y.inode)
InodeCheck ==
  /\ Running /\ pc = "inode_check"
  /\ \E found \in BOOLEAN :
       IF found THEN pc' = "perm_check" /\ UNCHANGED << phase, exitStatus >>
       ELSE MainExits("EXIT_FAILURE")
  /\ UNCHANGED << sigVars, handleVars, cliVars, cfgVars, readVars, bodyVars >>

\* lines 193-199: check_inode_permissions(y.inode)
PermCheck ==
  /\ Running /\ pc = "perm_check"
  /\ \E allowed \in BOOLEAN :
       IF allowed THEN pc' = "inotify_init" /\ UNCHANGED << phase, exitStatus >>
       ELSE MainExits("EXIT_FAILURE")
  /\ UNCHANGED << sigVars, handleVars, cliVars, cfgVars, readVars, bodyVars >>

\* lines 201-204: fd = inotify_init(); a failure is printed, nothing else
InotifyInit ==
  /\ Running /\ pc = "inotify_init"
  /\ \E r \in { -1, FdOk } :
       /\ fd' = r
       /\ chanOpen' = (r >= 0)
       /\ report' = IF r < 0 THEN "init_error" ELSE report
  /\ pc' = "add_watch"
  /\ UNCHANGED << phase, exitStatus, sigVars, wd, watchLive, rmLog, cliVars,
                  cfgVars, rd, buf, p, reads, delivered, bodyVars >>

\* lines 207-210: wd = inotify_add_watch(fd, y.inode, IN_ALL_EVENTS)
AddWatch ==
  /\ Running /\ pc = "add_watch"
  /\ \E r \in { -1, WdOk } :
       /\ (fd < 0 => r = -1)
       /\ wd' = r
       /\ watchLive' = (r >= 0)
       /\ report' = IF r < 0 THEN "watch_error" ELSE report
  /\ pc' = "split"
  /\ UNCHANGED << phase, exitStatus, sigVars, fd, chanOpen, rmLog, cliVars,
                  cfgVars, rd, buf, p, reads, delivered, bodyVars >>

\* lines 213-222: split y.action into prepend and command
SplitAction ==
  /\ Running /\ pc = "split"
  /\ prepend' = FirstToken(yAction)
  /\ command' = RestToken(yAction)
  /\ IF RestToken(yAction) = NullStr
       THEN MainExits("EXIT_FAILURE")
       ELSE pc' = "while" /\ UNCHANGED << phase, exitStatus >>
  /\ UNCHANGED << yEvent, yAction, i, event_flag, sigVars, handleVars,
                  cliVars, readVars, bodyVars >>

(* ----------------------------- the loop ------------------------------ *)
\* line 229: while (sc)
While ==
  /\ Running /\ pc = "while"
  /\ pc' = IF sc THEN "read" ELSE "end"
  /\ UNCHANGED << phase, exitStatus, sigVars, handleVars, cliVars, cfgVars,
                  readVars, bodyVars >>

\* what read(fd, buf, BUF_LEN) can return: -1, 0 on an open channel, or the
\* bytes of some records when a watch feeds the channel
ReadResults ==
  { [n |-> -1, b |-> << >>] }
    \cup (IF chanOpen THEN { [n |-> 0, b |-> << >>] } ELSE {})
    \cup (IF chanOpen /\ watchLive
            THEN { [n |-> TotalSize(b), b |-> b] : b \in Buffers } ELSE {})

\* AfterRead with the error branch retrying the read instead of leaving
AfterReadRetry(n) == IF n = 0 THEN "for" ELSE IF n < 0 THEN "read" ELSE "end"

\* AfterRead with the zero branch leaving the loop like the error branch
AfterReadZeroEnds(n) == "end"

\* lines 232-237: where main() goes after read() returned n
AfterRead(n) == IF n = 0 THEN "for" ELSE "end"

\* lines 232-237: what is written about the read
ReadReport(n) == IF n = 0 THEN "zero_read" ELSE "read_error"

\* lines 230-237 and the initialisation of the for loop of line 240
Read ==
  /\ Running /\ pc = "read" /\ reads < MaxReads
  /\ \E r \in ReadResults :
       /\ rd' = r.n
       /\ buf' = IF r.n > 0 THEN r.b ELSE buf
       /\ delivered' = delivered \o NamesOf(r.b)
       /\ report' = ReadReport(r.n)
       /\ pc' = AfterRead(r.n)
       /\ p' = IF AfterRead(r.n) = "for" THEN 0 ELSE p
  /\ reads' = reads + 1
  /\ UNCHANGED << phase, exitStatus, sigVars, handleVars, cliVars, cfgVars,
                  bodyVars >>

\* line 240, p < buf + rd fails: back to the while
ForExit ==
  /\ Running /\ pc = "for" /\ ~(p < rd)
  /\ pc' = "while"
  /\ UNCHANGED << phase, exitStatus, sigVars, handleVars, cliVars, cfgVars,
                  readVars, bodyVars >>

\* line 240, p < buf + rd holds: into the body
ForEnter ==
  /\ Running /\ pc = "for" /\ p < rd
  /\ pc' = "classify"
  /\ UNCHANGED << phase, exitStatus, sigVars, handleVars, cliVars, cfgVars,
                  readVars, bodyVars >>

\* lines 248-258: the time, ev = (struct inotify_event *) p, event = get_event(ev)
Classify ==
  /\ Running /\ pc = "classify"
  /\ visited' = Append(visited, p)
  /\ event' = get_event(RecAt(buf, p).mask)
  /\ classified' = Append(classified, event')
  /\ pc' = "notify"
  /\ UNCHANGED << phase, exitStatus, sigVars, handleVars, cliVars, cfgVars,
                  readVars, notes, execs, logLines, cmdStatus >>

\* lines 260-263: if (notifier) raise_notification(ltime, event)
Notify ==
  /\ Running /\ pc = "notify"
  /\ \E t \in Truthy(notifier) :
       notes' = IF t THEN Append(notes, event) ELSE notes
  /\ pc' = "dispatch"
  /\ UNCHANGED << phase, exitStatus, sigVars, handleVars, cliVars, cfgVars,
                  readVars, event, classified, execs, logLines, visited,
                  cmdStatus >>

\* line 266: the condition under which the command is run
ExecuteGuard == StrEq(prepend, << "execute" >>) /\ StrEq(yEvent, event)

\* line 268: the condition under which a line is logged
LogGuard == StrEq(prepend, << "log" >>)

\* Dispatch with system() not waiting for the command: main() goes on to
\* line 288 while the command still runs
DispatchInBackground ==
  /\ Running /\ pc = "dispatch"
  /\ IF ExecuteGuard
       THEN execs' = execs + 1 /\ pc' = "advance"
       ELSE IF LogGuard
         THEN pc' = "log_build" /\ execs' = execs
         ELSE pc' = "advance" /\ execs' = execs
  /\ UNCHANGED << phase, exitStatus, sigVars, handleVars, cliVars, cfgVars,
                  readVars, event, classified, notes, logLines, visited,
                  cmdStatus >>

\* lines 265-268: the choice of the branch; in the execute branch system()
\* is entered and the command starts
Dispatch ==
  /\ Running /\ pc = "dispatch"
  /\ IF ExecuteGuard
       THEN execs' = execs + 1 /\ pc' = "in_system"
       ELSE IF LogGuard
         THEN pc' = "log_build" /\ execs' = execs
         ELSE pc' = "advance" /\ execs' = execs
  /\ UNCHANGED << phase, exitStatus, sigVars, handleVars, cliVars, cfgVars,
                  readVars, event, classified, notes, logLines, visited,
                  cmdStatus >>

\* SystemReturn with a failed command ending the loop
SystemReturnHalts ==
  /\ Running /\ pc = "in_system"
  /\ \E st \in { 0, 1 } :
       /\ cmdStatus' = Append(cmdStatus, st)
       /\ pc' = IF st = 0 THEN "advance" ELSE "end"
  /\ UNCHANGED << phase, exitStatus, sigVars, handleVars, cliVars, cfgVars,
                  readVars, event, classified, notes, execs, logLines, visited >>

\* line 267: system() returns once the command has ended; main() does not
\* look at the value it returns
SystemReturn ==
  /\ Running /\ pc = "in_system"
  /\ \E st \in { 0, 1 } : cmdStatus' = Append(cmdStatus, st)
  /\ pc' = "advance"
  /\ UNCHANGED << phase, exitStatus, sigVars, handleVars, cliVars, cfgVars,
                  readVars, event, classified, notes, execs, logLines, visited >>

\* lines 270-278: eventstr = ltime event "\n", or exit when malloc fails
LogBuild ==
  /\ Running /\ pc = "log_build"
  /\ \E got \in BOOLEAN :
       IF got
         THEN pc' = "log_write" /\ UNCHANGED << phase, exitStatus, report >>
         ELSE report' = "malloc_error" /\ MainExits("EXIT_FAILURE")
  /\ UNCHANGED << sigVars, handleVars, cliVars, cfgVars, rd, buf, p, reads,
                  delivered, bodyVars >>

\* LogWrite with a failed append skipped instead of ending the process
LogWriteSkipsFailure ==
  /\ Running /\ pc = "log_write"
  /\ \E written \in BOOLEAN :
       /\ logLines' = IF written THEN Append(logLines, event) ELSE logLines
       /\ report' = IF written THEN report ELSE "log_error"
  /\ pc' = "advance"
  /\ UNCHANGED << phase, exitStatus, sigVars, handleVars, cliVars, cfgVars,
                  rd, buf, p, reads, delivered, event, classified, notes,
                  execs, visited, cmdStatus >>

\* lines 280-286: create_file(command, eventstr), exit when it fails
LogWrite ==
  /\ Running /\ pc = "log_write"
  /\ \E written \in BOOLEAN :
       IF written
         THEN /\ logLines' = Append(logLines, event)
              /\ pc' = "advance"
              /\ UNCHANGED << phase, exitStatus, report >>
         ELSE /\ report' = "log_error"
              /\ MainExits("EXIT_FAILURE")
              /\ UNCHANGED logLines
  /\ UNCHANGED << sigVars, handleVars, cliVars, cfgVars, rd, buf, p, reads,
                  delivered, event, classified, notes, execs, visited,
                  cmdStatus >>

\* Advance that leaves the rest of the buffer unread
AdvanceToEnd ==
  /\ Running /\ pc = "advance"
  /\ p' = rd
  /\ pc' = "for"
  /\ UNCHANGED << phase, exitStatus, sigVars, handleVars, cliVars, cfgVars,
                  rd, buf, reads, report, delivered, bodyVars >>

\* line 288: p += sizeof(struct inotify_event) + ev->len
Advance ==
  /\ Running /\ pc = "advance"
  /\ p' = p + HeaderSize + RecAt(buf, p).len
  /\ pc' = "for"
  /\ UNCHANGED << phase, exitStatus, sigVars, handleVars, cliVars, cfgVars,
                  rd, buf, reads, report, delivered, bodyVars >>

\* lines 292-293: exit(EXIT_SUCCESS) after the loop
MainEnd ==
  /\ Running /\ pc = "end"
  /\ MainExits("EXIT_SUCCESS")
  /\ UNCHANGED << sigVars, handleVars, cliVars, cfgVars, readVars, bodyVars >>

(* ------------------------ signal and exit paths ----------------------- *)
\* SIGINT is delivered once the handler is installed; lines 58-60.  While
\* system() waits for the command it has SIGINT ignored in the caller, so the
\* handler is not entered then.
Signal ==
  /\ pc # "install" /\ hpc = "none" /\ phase # "terminated"
  /\ ~(phase = "running" /\ pc = "in_system")
  /\ hpc' = "set_flag"
  /\ sigAt' = IF phase = "running" THEN pc ELSE "exit"
  /\ UNCHANGED << sc, procVars, handleVars, cliVars, cfgVars, readVars, bodyVars >>

\* line 61: sc = false
HandlerSetFlag ==
  /\ hpc = "set_flag"
  /\ sc' = FALSE
  /\ hpc' = "cleanup"
  /\ UNCHANGED << sigAt, procVars, handleVars, cliVars, cfgVars, readVars, bodyVars >>

\* line 62: cleanup()
HandlerCleanup ==
  /\ hpc = "cleanup"
  /\ cleanup
  /\ hpc' = "exit"
  /\ UNCHANGED << sigAt, sc, procVars, cliVars, cfgVars, readVars, bodyVars >>

\* HandlerExit with the handler returning to main() instead of calling exit()
HandlerReturns ==
  /\ hpc = "exit"
  /\ hpc' = "none"
  /\ UNCHANGED << pc, phase, exitStatus, sigAt, sc, handleVars, cliVars,
                  cfgVars, readVars, bodyVars >>

\* line 63: exit(EXIT_SUCCESS) from the handler; main() never resumes.  When
\* main() was already inside exit(), this is a second call of exit(), whose
\* behaviour is undefined: the atexit routine runs again or it does not.
HandlerExit ==
  /\ hpc = "exit"
  /\ hpc' = "done"
  /\ IF phase = "running"
       THEN phase' = "exiting" /\ exitStatus' = "EXIT_SUCCESS"
       ELSE phase' \in { "exiting", "terminated" } /\ UNCHANGED exitStatus
  /\ UNCHANGED << pc, sigAt, sc, handleVars, cliVars, cfgVars, readVars, bodyVars >>

\* exit() runs the routine registered at line 83, then the process is gone
AtExit ==
  /\ phase = "exiting" /\ hpc \in { "none", "done" }
  /\ cleanup
  /\ phase' = "terminated"
  /\ UNCHANGED << pc, exitStatus, sigVars, cliVars, cfgVars, readVars, bodyVars >>

(* --------------------------- specifications --------------------------- *)
\* The whole program.  ForEnter and the loop body are left out of Next: no
\* run reaches them with p < rd (BodyNeverEntered), since Read leaves the
\* loop on every non-zero result.
Next ==
  \/ Install \/ ParseArgs \/ SelectYaml \/ FileCheck \/ ParseYaml
  \/ ScanStep \/ CheckFlag \/ InodeCheck \/ PermCheck
  \/ InotifyInit \/ AddWatch \/ SplitAction
  \/ While \/ Read \/ ForExit \/ MainEnd
  \/ Signal \/ HandlerSetFlag \/ HandlerCleanup \/ HandlerExit \/ AtExit

Spec == Init /\ [][Next]_vars

\* ForEnter is never enabled in a run of the whole program
BodyNeverEntered == ~ ENABLED ForEnter

\* the byte counts a buffer of these records can come with: all of it, or
\* all but the end of the last record's name
ValidLengths(b) ==
  { TotalSize(b) } \cup
    (IF b[Len(b)].len > 0 THEN { TotalSize(b) - 1 } ELSE {})

\* The for loop of lines 240-289 on its own: started at line 240 after a
\* successful startup, on a buffer of rd > 0 bytes.
InitLoop ==
  /\ pc = "for" /\ hpc = "none" /\ phase = "running"
  /\ exitStatus = "none" /\ sigAt = "none" /\ sc = TRUE
  /\ fd = FdOk /\ wd = WdOk /\ chanOpen = TRUE /\ watchLive = TRUE
  /\ rmLog = << >>
  /\ argv = << << "c", ".", "yaml" >> >>
  /\ verbose = Indeterminate /\ notifier \in { Indeterminate, 1 }
  /\ yaml_target = << "c", ".", "yaml" >>
  /\ yEvent \in { "IN_ACCESS", "IN_MODIFY" }
  /\ yAction \in { a \in ConfigActions : RestToken(a) # NullStr }
  /\ i = CHOOSE j \in 0..(NEvents - 1) : EventsAt(j) = yEvent
  /\ event_flag = 0
  /\ prepend = FirstToken(yAction) /\ command = RestToken(yAction)
  /\ buf \in Buffers /\ rd \in ValidLengths(buf) /\ p = 0
  /\ event = "" /\ reads = 1 /\ report = "none"
  /\ delivered = NamesOf(buf)
  /\ classified = << >> /\ notes = << >> /\ execs = 0 /\ logLines = << >>
  /\ visited = << >> /\ cmdStatus = << >>

NextLoop ==
  \/ ForEnter \/ Classify \/ Notify \/ Dispatch \/ SystemReturn
  \/ LogBuild \/ LogWrite \/ Advance \/ ForExit
  \/ Signal \/ HandlerSetFlag \/ HandlerCleanup \/ HandlerExit \/ AtExit

SpecLoop == InitLoop /\ [][NextLoop]_vars

(* ------------------------------ claims -------------------------------- *)
LoopPositions ==
  { "for", "classify", "notify", "dispatch", "in_system", "log_build",
    "log_write", "advance" }
DispatchPositions == { "dispatch", "in_system", "log_build", "log_write" }
Watching == { "while", "read" }
SessionInitialized == fd = FdOk /\ wd = WdOk
KnownEvent(e) == \E j \in 0..(NEvents - 1) : EventsAt(j) = e

\* C1: whenever read() returned n > 0, every record of the first n bytes is
\* classified and dispatched and main() is afterwards still watching: it is
\* inside the for loop, or back at the while/read with all delivered records
\* classified; it has not left the loop.
C1_PositiveReadDispatched ==
  (reads > 0 /\ rd > 0 /\ hpc = "none") =>
     \/ pc \in LoopPositions /\ phase = "running"
     \/ pc \in Watching /\ phase = "running" /\ classified = delivered

C3_ActionOncePerTrigger ==
  (/\ hpc = "none" /\ reads > 0
   /\ prepend \in { << "execute" >>, << "log" >> }
   /\ pc \in Watching \cup { "end", "exit" })
     => execs + Len(logLines) = CountEq(delivered, yEvent)

\* C4: when the process has terminated through exit() after the channel and
\* the watch were acquired, both the watch and the channel have been released.
C4_HandlesReleasedAtExit ==
  (phase = "terminated" /\ exitStatus # "SIGSEGV" /\ SessionInitialized)
     => (~watchLive /\ ~chanOpen)

\* C5: the release routine performs a release operation on the watch handle
\* at most once in a run; a second invocation of it is a no-op.
C5_SecondReleaseIsNoOp ==
  Cardinality({ j \in 1..Len(rmLog) :
                  rmLog[j].fd = FdOk /\ rmLog[j].wd = WdOk }) <= 1

\* C6: after a signal caught while main() was at the read, main() takes no
\* further step (no read, classification, notification, dispatch or command),
\* and the only steps are those of the handler in order: flag (draining),
\* then the release of the watch (closed), then exit(), then termination.
C6_SignalOnlyReleasesAndExits ==
  [][ (hpc # "none" /\ sigAt = "read") =>
        /\ pc' = pc
        /\ UNCHANGED << readVars, bodyVars, cfgVars >>
        /\ << hpc, hpc' >> \in { << "set_flag", "cleanup" >>, << "cleanup", "exit" >>,
                                 << "exit", "done" >>, << "done", "done" >> }
        /\ (hpc = "set_flag" => phase' = "running" /\ ~sc' /\ rmLog' = rmLog)
        /\ (hpc = "cleanup" => phase' = "running" /\ ~watchLive'
                               /\ Len(rmLog') = Len(rmLog) + 1)
        /\ (hpc = "exit" => phase' = "exiting" /\ rmLog' = rmLog)
        /\ (hpc = "done" => phase' = "terminated") ]_vars

C6_Witness ==
  sigAt = "read" /\ hpc = "done" /\ phase = "terminated" /\ reads = 1

\* C7: if inotify_init or inotify_add_watch failed, main() never reaches the
\* loop: no read of the channel is attempted.
C7_InitFailureNeverWatches ==
  (fd < 0 \/ wd < 0) => (reads = 0 /\ pc \notin Watching \cup LoopPositions)

\* C8: after read() returned a negative result the error is reported, main()
\* has left the loop for the exit, no further read is made and no record of
\* that read is classified or dispatched.
C8_ReadErrorIsFatal ==
  (reads > 0 /\ rd < 0) =>
     /\ report = "read_error"
     /\ pc \in { "end", "exit" }
     /\ classified = << >> /\ execs = 0 /\ logLines = << >>

C8_Witness ==
  reads > 0 /\ rd < 0 /\ sigAt = "none" /\ phase = "terminated"
  /\ exitStatus = "EXIT_SUCCESS"

\* C9: after read() returned 0 the anomaly is reported, no record is
\* dispatched, and main() stays in the loop: unless a signal is caught it is
\* on its way to, or at, the next read.
C9_ZeroReadKeepsWatching ==
  (reads > 0 /\ rd = 0 /\ hpc = "none") =>
     /\ report = "zero_read"
     /\ phase = "running"
     /\ pc \in { "for", "while", "read" }
     /\ classified = << >> /\ execs = 0 /\ logLines = << >>

C9_Witness ==
  reads = 1 /\ rd = 0 /\ pc = "read" /\ report = "zero_read" /\ Running

\* C10: when the configured event name is not one of the names of events[],
\* startup fails at the check of lines 176-179: main() gets no further and
\* the channel is never opened.
C10_UnknownEventRejected ==
  (yEvent # "" /\ ~KnownEvent(yEvent)) =>
     (pc \in { "scan", "check_flag", "exit" } /\ fd = 0 /\ ~chanOpen)

SomeCommandFailed == \E j \in 1..Len(cmdStatus) : cmdStatus[j] # 0

Offsets(b) == [ j \in 1..Len(b) |-> TotalSize(SubSeq(b, 1, j - 1)) ]

PathArgument(args) ==
  LET files == SelectSeq(args, LAMBDA a : ~IsOption(a))
  IN  IF files = << >> THEN NullStr ELSE files[1]

StopsInGetopt(args) ==
  \E j \in 1..Len(args) : IsOption(args[j]) /\ args[j][2] \in { "h", "x" }

\* C18: past the selection of the configuration path, the path is the
\* argument when it ends in .yaml and the default path otherwise (no
\* argument, or another extension); startup never stops there.
C18_ConfigPathSelection ==
  (pc \notin { "install", "getopt", "select_yaml" } /\ ~StopsInGetopt(argv)) =>
     yaml_target =
       IF PathArgument(argv) # NullStr
            /\ strrchr(PathArgument(argv), ".") = << ".", "yaml" >>
         THEN PathArgument(argv) ELSE CONFIG_FILE

\* C19: every call of inotify_rm_watch made by cleanup is on the descriptors
\* that inotify_init and inotify_add_watch returned on success.
C19_CleanupOnAcquiredHandles ==
  \A j \in 1..Len(rmLog) : rmLog[j].fd = FdOk /\ rmLog[j].wd = WdOk

\* C20: the scan reads only events[0..12], and when it is over event_flag is
\* 0 for a name of the table and 1 for any other.
C20_ScanStaysInTable ==
  /\ (pc \in { "scan", "check_flag" } => i < NEvents)
  /\ (pc = "check_flag" =>
        event_flag = IF KnownEvent(yEvent) THEN 0 ELSE 1)

====
